---- MODULE Spec2Model ----
(***************************************************************************)
(* A model of whatsapp_archive.py: the record splitter of main(), the      *)
(* line classifier ParseLine with its regular expressions, the colour      *)
(* table of getColor, the body sanitiser massageBody and the folding loop  *)
(* IdentifyMessages.                                                        *)
(*                                                                         *)
(* Text is modelled character by character: a Python str is a sequence of  *)
(* one-character strings.  Characters outside ASCII carry a name:          *)
(*   "LRM" U+200E, "BOM" U+FEFF, "ALEF" U+05D0 (Hebrew), "ARALEF" U+0627   *)
(*   (Arabic), "LDQ" U+201C and "RDQ" U+201D (curly double quotes).        *)
(* A Python bytes object is a sequence of integers 0..255.                 *)
(***************************************************************************)
EXTENDS Integers, Sequences, FiniteSets, TLC

VARIABLES
    body,        \* main: the bytes read from the input file
    lines,       \* main: the decoded records handed to IdentifyMessages
    fileName,    \* main: args.input_file
    idx,         \* IdentifyMessages: position of the for loop in lines
    messages,    \* IdentifyMessages: the local list of message structs
    groupName,   \* IdentifyMessages: the local conversation name
    colorLUT,    \* the module-level colour table
    returned,    \* main: the (messages, groupName) pair IdentifyMessages returned
    output,      \* main: what was written to the output file
    exc,         \* the exception that left main, if any
    pc,          \* position of the program
    rawBody,     \* massageBody: its argument
    fixed        \* massageBody: its result

vars == <<body, lines, fileName, idx, messages, groupName, colorLUT,
          returned, output, exc, pc, rawBody, fixed>>

\* Python's None; also "no exception"
None == <<>>

(***************************************************************************)
(* Bounds of the model.                                                    *)
(***************************************************************************)
MaxLines == 3
MaxBytes == 5
MaxParts == 3

(***************************************************************************)
(* Sequence helpers.                                                       *)
(***************************************************************************)
RECURSIVE Flatten(_)
\* the concatenation of the sequences of ss
Flatten(ss) ==
    IF Len(ss) = 0 THEN <<>>
    ELSE IF Len(ss) = 1 THEN ss[1]
    ELSE LET h == Len(ss) \div 2
         IN  Flatten(SubSeq(ss, 1, h)) \o Flatten(SubSeq(ss, h + 1, Len(ss)))

Last(s) == s[Len(s)]

\* s[from .. to-1], Python's s[from-1:to-1] for 1-based positions
Slice(s, from, to) == SubSeq(s, from, to - 1)

\* lit occurs in s starting at position p
LitAt(s, p, lit) ==
    /\ p + Len(lit) - 1 <= Len(s)
    /\ \A k \in 1..Len(lit) : s[p + k - 1] = lit[k]

\* lit occurs somewhere in s
Contains(s, lit) == \E p \in 1..(Len(s) + 1) : LitAt(s, p, lit)

\* all sequences over S of length at most n
SeqsUpTo(S, n) == UNION {[1..k -> S] : k \in 0..n}

LIT_LT ==
    <<"&", "l", "t", ";">>
LIT_GT ==
    <<"&", "g", "t", ";">>
LIT_AMP ==
    <<"&", "a", "m", "p", ";">>
LIT_BR ==
    <<"<", "b", "r", ">">>
LIT_ATTACHED ==
    <<"&", "l", "t", ";", "a", "t", "t", "a", "c", "h", "e", "d", ":", " ">>
LIT_CREATED_GROUP ==
    <<"c", "r", "e", "a", "t", "e", "d", " ", "g", "r", "o", "u", "p", " ",
      "LDQ">>
LIT_SECURED ==
    <<"M", "e", "s", "s", "a", "g", "e", "s", " ", "t", "o", " ", "t", "h",
      "i", "s", " ", "g", "r", "o", "u", "p", " ", "a", "r", "e", " ", "n",
      "o", "w", " ", "s", "e", "c", "u", "r", "e", "d">>
LIT_NOBODY ==
    <<"n", "o", "b", "o", "d", "y">>
LIT_A_HREF ==
    <<"<", "a", " ", "h", "r", "e", "f", "=", "\"">>
LIT_A_MID ==
    <<"\"", ">">>
LIT_A_END ==
    <<"<", "/", "a", ">">>
LIT_IMG_MID ==
    <<"\"", ">", "<", "i", "m", "g", " ", "l", "o", "a", "d", "i", "n", "g",
      "=", "l", "a", "z", "y", " ", "s", "r", "c", "=", "\"">>
LIT_IMG_END ==
    <<"\"", ">", "<", "/", "a", ">">>
LIT_MOV_MID ==
    <<"\"", ">", "<", "d", "i", "v", " ", "c", "l", "a", "s", "s", "=", "\"",
      "c", "o", "n", "t", "a", "i", "n", "e", "r", "\"", ">", "<", "v", "i",
      "d", "e", "o", " ", "l", "o", "a", "d", "i", "n", "g", "=", "l", "a",
      "z", "y", " ", "s", "r", "c", "=", "\"">>
LIT_MOV_END ==
    <<"\"", ">", "<", "/", "v", "i", "d", "e", "o", ">", "<", "d", "i", "v",
      " ", "c", "l", "a", "s", "s", "=", "\"", "c", "e", "n", "t", "e", "r",
      "e", "d", "\"", ">", "P", "L", "A", "Y", "<", "/", "d", "i", "v", ">",
      "<", "/", "d", "i", "v", ">", "<", "/", "a", ">">>
LIT_AUDIO_MID ==
    <<"\"", ">", "<", "a", "u", "d", "i", "o", " ", "l", "o", "a", "d", "i",
      "n", "g", "=", "l", "a", "z", "y", " ", "c", "o", "n", "t", "r", "o",
      "l", "s", ">", "<", "s", "o", "u", "r", "c", "e", " ", "s", "r", "c",
      "=", "\"">>
LIT_AUDIO_END ==
    <<"\"", " ", "/", ">", "<", "/", "a", "u", "d", "i", "o", ">", "<", "/",
      "a", ">">>

(***************************************************************************)
(* Regular expressions, matched the way Python's backtracking matcher      *)
(* does.  A partial match is the sequence of positions reached after each  *)
(* element of the pattern; a pattern element maps a position to the        *)
(* positions it can end at, ordered by the matcher's preference (greedy:   *)
(* longest first, lazy: shortest first, alternation: left to right,        *)
(* optional: present first).  re.match yields the first complete match of  *)
(* that order, or no match.                                                *)
(***************************************************************************)
NoMatch == <<>>

\* a character class: the characters of set, or all others when neg
InClass(c, cls) == (c \in cls.set) # cls.neg

Digits == {"0", "1", "2", "3", "4", "5", "6", "7", "8", "9"}
DateClass == [neg |-> FALSE, set |-> Digits \cup {"/", "-"}]   \* [\d/-]
TimeClass == [neg |-> FALSE, set |-> Digits \cup {":"}]        \* [\d:]
NameClass == [neg |-> TRUE, set |-> {":"}]                     \* [^:]
AnyChar == [neg |-> TRUE, set |-> {}]                          \* . with re.DOTALL
NotNewline == [neg |-> TRUE, set |-> {"\n"}]                   \* . without re.DOTALL
LinkClass == [neg |-> TRUE, set |-> {" ", "\n", "<"}]          \* [^ \n<]

RECURSIVE RunLen(_, _, _)
\* the number of consecutive characters of cls in s from position p on
RunLen(s, p, cls) ==
    IF p <= Len(s) /\ InClass(s[p], cls) THEN 1 + RunLen(s, p + 1, cls) ELSE 0

\* the end positions p+n, ..., p+min of a run of n characters, longest first
Down(p, n, min) == [k \in 1..(n - min + 1) |-> p + n - (k - 1)]

\* the end positions p+min, ..., p+n of a run of n characters, shortest first
Up(p, n, min) == [k \in 1..(n - min + 1) |-> p + min + (k - 1)]

\* cls{min,} greedy: the longest run first
Greedy(s, p, cls, min) == Down(p, RunLen(s, p, cls), min)

\* cls{min,}? lazy: the shortest run first
Lazy(s, p, cls, min) == Up(p, RunLen(s, p, cls), min)

\* a literal
Lit(s, p, lit) == IF LitAt(s, p, lit) THEN <<p + Len(lit)>> ELSE <<>>

\* c?
Opt(s, p, c) == IF LitAt(s, p, <<c>>) THEN <<p + 1, p>> ELSE <<p>>

\* the partial match m extended by each of the positions r
Tails(m, r) == [j \in 1..Len(r) |-> Append(m, r[j])]

\* every partial match of S extended by one pattern element
Extend(S, Stage(_)) ==
    Flatten([i \in 1..Len(S) |-> Tails(S[i], Stage(Last(S[i])))])

First(S) == IF S = <<>> THEN NoMatch ELSE S[1]

\* the named groups of the match m: group k spans m[from[k]] .. m[to[k]]
Groups(s, m, names, from, to) ==
    IF m = NoMatch THEN NoMatch
    ELSE [g \in {names[k] : k \in 1..Len(names)} |->
             Slice(s, m[from[CHOOSE k \in 1..Len(names) : names[k] = g]],
                      m[to[CHOOSE k \in 1..Len(names) : names[k] = g]])]

LRM == "LRM"

\* ( [AP]M)? after a run of time characters that ends at e
AmPm(s, e) ==
    IF LitAt(s, e, <<" ", "A", "M">>) \/ LitAt(s, e, <<" ", "P", "M">>)
    THEN <<e + 3, e>>
    ELSE <<e>>

TimeEnds(s, g) == Flatten([k \in 1..Len(g) |-> AmPm(s, g[k])])

\* TIME_RE: [\d:]+( [AP]M)?
TIME_RE(s, p) == TimeEnds(s, Greedy(s, p, TimeClass, 1))

\* SEPARATOR_RE: ( - |: | )
SEPARATOR_RE(s, p) ==
    Lit(s, p, <<" ", "-", " ">>) \o Lit(s, p, <<":", " ">>) \o Lit(s, p, <<" ">>)

\* DATETIME_RE: \[? DATE_RE ,? space TIME_RE \]?  (six positions appended)
DATETIME_RE(s, S) ==
    LET a == Extend(S, LAMBDA p : Opt(s, p, "["))
        b == Extend(a, LAMBDA p : Greedy(s, p, DateClass, 1))
        c == Extend(b, LAMBDA p : Opt(s, p, ","))
        d == Extend(c, LAMBDA p : Lit(s, p, <<" ">>))
        e == Extend(d, LAMBDA p : TIME_RE(s, p))
    IN  Extend(e, LAMBDA p : Opt(s, p, "]"))

\* re.match(WHATSAPP_RE, line, re.DOTALL): the groups of the match, or NoMatch
WHATSAPP_RE(line) ==
    LET a == Extend(<< <<1>> >>, LAMBDA p : Opt(line, p, LRM))
        b == DATETIME_RE(line, a)
        c == Extend(b, LAMBDA p : SEPARATOR_RE(line, p))
        d == Extend(c, LAMBDA p : Greedy(line, p, NameClass, 1))
        e == Extend(d, LAMBDA p : Lit(line, p, <<":", " ">>))
        f == Extend(e, LAMBDA p : Opt(line, p, LRM))
        g == Extend(f, LAMBDA p : <<Len(line) + 1>>)       \* (?P<body>.*$)
    IN  Groups(line, First(g), <<"date", "time", "name", "body">>,
               <<3, 6, 9, 12>>, <<4, 7, 10, 13>>)

\* re.match(FIRSTLINE_RE, line, re.DOTALL)
FIRSTLINE_RE(line) ==
    LET b == DATETIME_RE(line, << <<1>> >>)
        c == Extend(b, LAMBDA p : SEPARATOR_RE(line, p))
        g == Extend(c, LAMBDA p : <<Len(line) + 1>>)       \* (?P<body>.*$)
    IN  Groups(line, First(g), <<"date", "time", "body">>, <<2, 5, 8>>, <<3, 6, 9>>)

\* re.match(GROUP_RE_1, line, re.DOTALL): the group groupName, or NoMatch
GROUP_RE_1(line) ==
    LET a == Extend(<< <<1>> >>, LAMBDA p : Lit(line, p, LIT_CREATED_GROUP))
        b == Extend(a, LAMBDA p : Greedy(line, p, AnyChar, 1))
        c == Extend(b, LAMBDA p : Lit(line, p, <<"RDQ">>))
    IN  Groups(line, First(c), <<"groupName">>, <<2>>, <<3>>)

\* re.match(GROUP_RE_2, line, re.DOTALL)
GROUP_RE_2(line) ==
    LET b == DATETIME_RE(line, << <<1>> >>)
        c == Extend(b, LAMBDA p : SEPARATOR_RE(line, p))
        d == Extend(c, LAMBDA p : Lazy(line, p, AnyChar, 0))
        e == Extend(d, LAMBDA p : Lit(line, p, <<":">>))
        f == Extend(e, LAMBDA p : Greedy(line, p, AnyChar, 0))
        g == Extend(f, LAMBDA p : Lit(line, p, LIT_SECURED))
    IN  Groups(line, First(g), <<"groupName">>, <<8>>, <<9>>)

(***************************************************************************)
(* dateutil.parser.parse(timestr, dayfirst=True), for the token shapes the *)
(* records of this model hold: a date of two numeric fields separated by   *)
(* / or -, and a time h:mm or h:mm:ss with an optional AM or PM.  The      *)
(* library resolves two fields day-first unless the second exceeds 12, and *)
(* raises ParserError when no calendar day or clock time results.          *)
(***************************************************************************)
DigitVal ==
    [c \in Digits |->
        CASE c = "0" -> 0 [] c = "1" -> 1 [] c = "2" -> 2 [] c = "3" -> 3
          [] c = "4" -> 4 [] c = "5" -> 5 [] c = "6" -> 6 [] c = "7" -> 7
          [] c = "8" -> 8 [] c = "9" -> 9]

RECURSIVE NumVal(_)
NumVal(s) ==
    IF s = <<>> THEN 0 ELSE 10 * NumVal(SubSeq(s, 1, Len(s) - 1)) + DigitVal[Last(s)]

IsNumber(s) == s # <<>> /\ \A k \in 1..Len(s) : s[k] \in Digits

\* the position of the first character of seps in s, or 0
FirstOf(s, seps) ==
    IF \E k \in 1..Len(s) : s[k] \in seps
    THEN CHOOSE k \in 1..Len(s) : s[k] \in seps /\ \A j \in 1..(k - 1) : s[j] \notin seps
    ELSE 0

RECURSIVE SplitOn(_, _)
RECURSIVE SplitAt(_, _, _)
\* Python's s.split on any of the characters of seps
SplitOn(s, seps) == SplitAt(s, seps, FirstOf(s, seps))

SplitAt(s, seps, k) ==
    IF k = 0 THEN <<s>>
    ELSE <<SubSeq(s, 1, k - 1)>> \o SplitOn(SubSeq(s, k + 1, Len(s)), seps)

ParserError == [exception |-> "ParserError"]

\* the suffix AM or PM of the time token, or none
AmPmOf(rest) ==
    IF Len(rest) >= 3 /\ SubSeq(rest, Len(rest) - 2, Len(rest)) = <<" ", "A", "M">>
    THEN "AM"
    ELSE IF Len(rest) >= 3 /\ SubSeq(rest, Len(rest) - 2, Len(rest)) = <<" ", "P", "M">>
    THEN "PM"
    ELSE ""

\* the instant of the numbers y1/y2 h:mi, or ParserError
Resolve(y1, y2, h, mi, ampm) ==
    LET day   == IF y2 <= 12 THEN y1 ELSE y2
        month == IF y2 <= 12 THEN y2 ELSE y1
        hour  == IF ampm = "PM" /\ h < 12 THEN h + 12
                 ELSE IF ampm = "AM" /\ h = 12 THEN 0 ELSE h
    IN  IF /\ day \in 1..31 /\ month \in 1..12
           /\ (IF ampm = "" THEN h \in 0..23 ELSE h \in 0..12)
           /\ mi \in 0..59
        THEN [day |-> day, month |-> month, hour |-> hour, minute |-> mi]
        ELSE ParserError

\* the date fields df and the time fields tf
ParseFields(df, tf, ampm) ==
    IF /\ Len(df) = 2 /\ \A k \in 1..2 : IsNumber(df[k])
       /\ Len(tf) \in {2, 3} /\ \A k \in 1..Len(tf) : IsNumber(tf[k])
    THEN Resolve(NumVal(df[1]), NumVal(df[2]), NumVal(tf[1]), NumVal(tf[2]), ampm)
    ELSE ParserError

\* the date token dtok and the rest of the string
ParseTokens(dtok, rest, ampm) ==
    ParseFields(SplitOn(dtok, {"/", "-"}),
                SplitOn(IF ampm = "" THEN rest ELSE SubSeq(rest, 1, Len(rest) - 3),
                        {":"}),
                ampm)

\* timestr with its first space at position sp
ParseAt(timestr, sp) ==
    ParseTokens(SubSeq(timestr, 1, sp - 1), SubSeq(timestr, sp + 1, Len(timestr)),
                AmPmOf(SubSeq(timestr, sp + 1, Len(timestr))))

dateutil_parse(timestr) ==
    ParseAt(timestr, RunLen(timestr, 1, [neg |-> TRUE, set |-> {" "}]) + 1)

(***************************************************************************)
(* unicodedata.bidirectional, for the characters of this model.            *)
(***************************************************************************)
LowerCase ==
    <<"a", "b", "c", "d", "e", "f", "g", "h", "i", "j", "k", "l", "m",
      "n", "o", "p", "q", "r", "s", "t", "u", "v", "w", "x", "y", "z">>
UpperCase ==
    <<"A", "B", "C", "D", "E", "F", "G", "H", "I", "J", "K", "L", "M",
      "N", "O", "P", "Q", "R", "S", "T", "U", "V", "W", "X", "Y", "Z">>
Letters == {LowerCase[k] : k \in 1..26} \cup {UpperCase[k] : k \in 1..26}

bidirectional(c) ==
    CASE c = "ALEF" -> "R"
      [] c = "ARALEF" -> "AL"
      [] c \in Letters \cup {"LRM"} -> "L"
      [] c \in Digits -> "EN"
      [] c \in {"-", "+"} -> "ES"
      [] c \in {"/", ":", ",", "."} -> "CS"
      [] c = " " -> "WS"
      [] c = "\n" -> "B"
      [] OTHER -> "ON"

(***************************************************************************)
(* getColor and the colour table colorLUT, a function from user names to   *)
(* colour strings.                                                          *)
(***************************************************************************)
\* int.from_bytes(md5(userName.encode('utf-8')).digest(), 'big') % 360,
\* tabulated for the user names of this model
Md5Mod360(userName) ==
    CASE userName = <<"A">> -> 265
      [] userName = <<"B">> -> 193
      [] userName = <<"G">> -> 127
      [] userName = LIT_NOBODY -> 8

RECURSIVE Str(_)
\* str(n) of a natural number
Str(n) ==
    LET d == <<"0", "1", "2", "3", "4", "5", "6", "7", "8", "9">>[(n % 10) + 1]
    IN  IF n < 10 THEN <<d>> ELSE Append(Str(n \div 10), d)

\* Template("hsl($hue,76%, 36%)").substitute(hue=hue)
ColorStr(hue) ==
    <<"h", "s", "l", "(">> \o Str(hue)
        \o <<",", "7", "6", "%", ",", " ", "3", "6", "%", ")">>

\* getColor(userName) on the table lut: the value returned and the table after
getColor(userName, lut) ==
    IF userName \in DOMAIN lut
    THEN [color |-> lut[userName], lut |-> lut]
    ELSE LET colorStr == ColorStr(Md5Mod360(userName))
         IN  [color |-> colorStr, lut |-> (userName :> colorStr) @@ lut]

(***************************************************************************)
(* massageBody.                                                            *)
(***************************************************************************)
\* the lower-case form of a character, for re.IGNORECASE
Lower(c) ==
    IF \E k \in 1..26 : UpperCase[k] = c
    THEN LowerCase[CHOOSE k \in 1..26 : UpperCase[k] = c]
    ELSE c

\* a literal under re.IGNORECASE
LitCI(s, p, lit) ==
    IF /\ p + Len(lit) - 1 <= Len(s)
       /\ \A k \in 1..Len(lit) : Lower(s[p + k - 1]) = Lower(lit[k])
    THEN <<p + Len(lit)>>
    ELSE <<>>

\* an alternation of literals under re.IGNORECASE, left to right
AltCI(s, p, alts) == Flatten([k \in 1..Len(alts) |-> LitCI(s, p, alts[k])])

\* re.sub of one character by a string
SubChar(s, c, repl) ==
    Flatten([k \in 1..Len(s) |-> IF s[k] = c THEN repl ELSE <<s[k]>>])

\* the extension alternatives of the three attachment patterns
IMG_EXT ==
    << <<"j", "p", "e", "g">>, <<"j", "p", "g">>, <<"p", "n", "g">>,
       <<"g", "i", "f">>, <<"w", "e", "b", "p">> >>
MOV_EXT == << <<"m", "p", "4">>, <<"m", "o", "v">>, <<"3", "g", "p">> >>
AUDIO_EXT == << <<"o", "p", "u", "s">> >>

\* &lt;attached: (?P<filename>.+\.(ext))&gt; under re.IGNORECASE, tried at
\* position p: the positions of the first match, or NoMatch
ATTACHMENT_RE(s, p, ext) ==
    LET a == Extend(<< <<p>> >>, LAMBDA q : LitCI(s, q, LIT_ATTACHED))
        b == Extend(a, LAMBDA q : Greedy(s, q, NotNewline, 1))
        c == Extend(b, LAMBDA q : Lit(s, q, <<".">>))
        d == Extend(c, LAMBDA q : AltCI(s, q, ext))
        e == Extend(d, LAMBDA q : LitCI(s, q, LIT_GT))
    IN  First(e)

ATTACHMENT_IMG_RE(s, p) == ATTACHMENT_RE(s, p, IMG_EXT)
ATTACHMENT_MOV_RE(s, p) == ATTACHMENT_RE(s, p, MOV_EXT)
ATTACHMENT_AUDIO_RE(s, p) == ATTACHMENT_RE(s, p, AUDIO_EXT)

\* (?P<link>https?://.[^ \n<]+) tried at position p
LINK_RE(s, p) ==
    LET a == Extend(<< <<p>> >>, LAMBDA q : Lit(s, q, <<"h", "t", "t", "p">>))
        b == Extend(a, LAMBDA q : Opt(s, q, "s"))
        c == Extend(b, LAMBDA q : Lit(s, q, <<":", "/", "/">>))
        d == Extend(c, LAMBDA q :
                 IF q <= Len(s) /\ InClass(s[q], NotNewline) THEN <<q + 1>> ELSE <<>>)
        e == Extend(d, LAMBDA q : Greedy(s, q, LinkClass, 1))
    IN  First(e)

\* the pattern named kind tried at position p
MatchAt(kind, s, p) ==
    CASE kind = "link"  -> LINK_RE(s, p)
      [] kind = "img"   -> ATTACHMENT_IMG_RE(s, p)
      [] kind = "mov"   -> ATTACHMENT_MOV_RE(s, p)
      [] kind = "audio" -> ATTACHMENT_AUDIO_RE(s, p)

\* the replacement template of kind expanded for the match m
Expand(kind, s, m) ==
    LET link     == Slice(s, m[1], Last(m))
        filename == Slice(s, m[2], m[5])
    IN  CASE kind = "link"  ->
                 LIT_A_HREF \o link \o LIT_A_MID \o link \o LIT_A_END
          [] kind = "img"   ->
                 LIT_A_HREF \o filename \o LIT_IMG_MID \o filename \o LIT_IMG_END
          [] kind = "mov"   ->
                 LIT_A_HREF \o filename \o LIT_MOV_MID \o filename \o LIT_MOV_END
          [] kind = "audio" ->
                 LIT_A_HREF \o filename \o LIT_AUDIO_MID \o filename \o LIT_AUDIO_END

\* re.search(kind, s)
Search(kind, s) == \E p \in 1..Len(s) : MatchAt(kind, s, p) # NoMatch

\* the position of the leftmost match of kind in s from p on, or 0
FirstMatch(kind, s, p) ==
    IF \E q \in p..Len(s) : MatchAt(kind, s, q) # NoMatch
    THEN CHOOSE q \in p..Len(s) :
             /\ MatchAt(kind, s, q) # NoMatch
             /\ \A r \in p..(q - 1) : MatchAt(kind, s, r) = NoMatch
    ELSE 0

RECURSIVE SubFrom(_, _, _)
RECURSIVE SubAt(_, _, _, _)
RECURSIVE SubMatch(_, _, _, _, _)
\* re.sub(kind, template, s) from position p on: leftmost matches, not overlapping
SubFrom(kind, s, p) == SubAt(kind, s, p, FirstMatch(kind, s, p))

\* the next match is at q (0: there is none)
SubAt(kind, s, p, q) ==
    IF q = 0 THEN SubSeq(s, p, Len(s))
    ELSE SubMatch(kind, s, p, q, MatchAt(kind, s, q))

\* the next match is m, at q
SubMatch(kind, s, p, q, m) ==
    SubSeq(s, p, q - 1) \o Expand(kind, s, m) \o SubFrom(kind, s, Last(m))

Sub(kind, s) == SubFrom(kind, s, 1)

\* the three escapes of massageBody, in its order
Escape(b) ==
    SubChar(SubChar(SubChar(b, "&", LIT_AMP), "<", LIT_LT), ">", LIT_GT)

\* the attachment substitution: the first category found, and only that one
Attachments(b) ==
    IF Search("img", b) THEN Sub("img", b)
    ELSE IF Search("mov", b) THEN Sub("mov", b)
    ELSE IF Search("audio", b) THEN Sub("audio", b)
    ELSE b

massageBody(b) ==
    SubChar(Attachments(Sub("link", Escape(b))), "\n", LIT_BR)

(***************************************************************************)
(* ParseLine.  The result holds the exception raised (None when the call   *)
(* returns), the message struct or None, the group name returned and the   *)
(* colour table after the call.                                            *)
(***************************************************************************)
IndexError == [exception |-> "IndexError"]

\* if m: groupName = m.group('groupName')
PickName(m, gName) == IF m # NoMatch THEN m.groupName ELSE gName

\* a classifier that tries the group-created pattern only
GroupNameOf_createdOnly(line, gName) == PickName(GROUP_RE_1(line), gName)

\* the group name after the two group patterns were tried on line
GroupNameOf(line, gName) ==
    PickName(GROUP_RE_2(line), PickName(GROUP_RE_1(line), gName))

\* the instant d, or a default instant where the parse failed
OrDefault(d) ==
    IF d = ParserError THEN [day |-> 1, month |-> 1, hour |-> 0, minute |-> 0] ELSE d

\* a date parse that falls back to a default instant instead of raising
ParseDateTime_default(m) == OrDefault(dateutil_parse(m.date \o <<" ">> \o m.time))

\* dateutil.parser.parse("%s %s" % (m.group('date'), m.group('time')), dayfirst=True)
ParseDateTime(m) == dateutil_parse(m.date \o <<" ">> \o m.time)

\* the direction guessed from the first character of a non-empty body
Direction(b) == IF bidirectional(b[1]) = "R" THEN "rtl" ELSE "ltr"

\* what a call of ParseLine yields
Result(e, message, g, lut) ==
    [exc |-> e, message |-> message, groupName |-> g, lut |-> lut]

\* the tail of ParseLine, from the direction guess on; b is the body matched
Finish(struct, b, g, lut) ==
    IF b = <<>>
    THEN Result(IndexError, None, g, lut)
    ELSE Result(None,
                [struct EXCEPT !.body = massageBody(b)] @@ [dir |-> Direction(b)],
                g, lut)

\* "mode 1": the sender form matched with groups m; d is the parsed date and
\* c what getColor yields
SenderStruct(m, d, c, g) ==
    Finish([date |-> d, user |-> m.name, color |-> c.color, body |-> m.body],
           m.body, g, c.lut)

Sender(m, d, g, lut) ==
    IF d = ParserError THEN Result(ParserError, None, g, lut)
    ELSE SenderStruct(m, d, getColor(m.name, lut), g)

\* "mode 2": the first-line form matched with groups m; d is the parsed date
AnonymousStruct(m, d, g, lut) ==
    IF d = ParserError THEN Result(ParserError, None, g, lut)
    ELSE Finish([date |-> d, user |-> LIT_NOBODY, body |-> m.body], m.body, g, lut)

\* the else branch: m2 is the match of the first-line form
Anonymous(m2, g, lut) ==
    IF m2 # NoMatch THEN AnonymousStruct(m2, ParseDateTime(m2), g, lut)
    ELSE Result(None, None, g, lut)

\* a non-empty line: g is the group name after the group patterns, m1 the
\* match of the sender form
Classify(line, g, m1, lut) ==
    IF m1 # NoMatch THEN Sender(m1, ParseDateTime(m1), g, lut)
    ELSE Anonymous(FIRSTLINE_RE(line), g, lut)

ParseLine(line, gName, lut) ==
    IF Len(line) = 0 THEN Result(None, None, gName, lut)
    ELSE Classify(line, GroupNameOf(line, gName), WHATSAPP_RE(line), lut)

(***************************************************************************)
(* The inputs of the model.                                                *)
(***************************************************************************)
R_EMPTY ==
    <<>>
R_SENDER ==
    <<"1", "/", "2", ",", " ", "3", ":", "0", "4", " ", "-", " ", "A", ":",
      " ", "h", "i">>
R_HEBREW ==
    <<"[", "1", "/", "2", ",", " ", "3", ":", "0", "4", " ", "P", "M", "]",
      " ", "B", ":", " ", "ALEF", "b", "\n", "<", "a", "t", "t", "a", "c",
      "h", "e", "d", ":", " ", "i", ".", "J", "P", "G", ">">>
R_ARABIC ==
    <<"LRM", "1", "/", "2", ",", " ", "3", ":", "0", "4", " ", "-", " ", "A",
      ":", " ", "LRM", "ARALEF", "b">>
R_EMPTYBODY ==
    <<"1", "/", "2", ",", " ", "3", ":", "0", "4", " ", "-", " ", "A", ":",
      " ">>
R_BADDATE ==
    <<"0", "/", "0", ",", " ", "3", ":", "0", "4", " ", "-", " ", "A", ":",
      " ", "h", "i">>
R_JUNK ==
    <<"j", "u", "n", "k">>
R_CREATED ==
    <<"c", "r", "e", "a", "t", "e", "d", " ", "g", "r", "o", "u", "p", " ",
      "LDQ", "X", "RDQ">>
R_CREATED_MID ==
    <<"1", "/", "2", ",", " ", "3", ":", "0", "4", " ", "-", " ", "A", " ",
      "c", "r", "e", "a", "t", "e", "d", " ", "g", "r", "o", "u", "p", " ",
      "LDQ", "Y", "RDQ">>
R_SECURED ==
    <<"1", "/", "2", ",", " ", "3", ":", "0", "4", " ", "-", " ", "G", ":",
      " ", "M", "e", "s", "s", "a", "g", "e", "s", " ", "t", "o", " ", "t",
      "h", "i", "s", " ", "g", "r", "o", "u", "p", " ", "a", "r", "e", " ",
      "n", "o", "w", " ", "s", "e", "c", "u", "r", "e", "d">>
P_IMG ==
    <<"<", "a", "t", "t", "a", "c", "h", "e", "d", ":", " ", "i", ".", "j",
      "p", "g", ">">>
P_MOV ==
    <<"<", "a", "t", "t", "a", "c", "h", "e", "d", ":", " ", "v", ".", "m",
      "p", "4", ">">>
P_AUDIO ==
    <<"<", "a", "t", "t", "a", "c", "h", "e", "d", ":", " ", "o", ".", "o",
      "p", "u", "s", ">">>
P_SPACE ==
    <<" ">>
P_NEWLINE ==
    <<"\n">>
P_TEXT ==
    <<"a", "&", "b">>
P_LINK ==
    <<"h", "t", "t", "p", ":", "/", "/", "x", ".", "y">>

Records ==
    {R_EMPTY, R_SENDER, R_HEBREW, R_ARABIC, R_EMPTYBODY, R_BADDATE, R_JUNK,
     R_CREATED, R_CREATED_MID, R_SECURED}

FileNames == {<<"c", "h", "a", "t">>}

BodyParts == {P_IMG, P_MOV, P_AUDIO, P_SPACE, P_NEWLINE, P_TEXT, P_LINK}

\* the bytes a, CR, LF and the three bytes of the UTF-8 byte-order mark
Bytes == {97, 13, 10, 239, 187, 191}

(***************************************************************************)
(* main: reading and splitting the input.                                  *)
(***************************************************************************)
CRLF == <<13, 10>>
BOM_UTF8 == <<239, 187, 191>>

\* the position of the first occurrence of sep in bs, or 0
find(bs, sep) ==
    IF \E p \in 1..Len(bs) : LitAt(bs, p, sep)
    THEN CHOOSE p \in 1..Len(bs) :
             LitAt(bs, p, sep) /\ \A q \in 1..(p - 1) : ~LitAt(bs, q, sep)
    ELSE 0

RECURSIVE split(_, _)
RECURSIVE splitAt(_, _, _)
\* bytes.split(sep)
split(bs, sep) == splitAt(bs, sep, find(bs, sep))

splitAt(bs, sep, p) ==
    IF p = 0 THEN <<bs>>
    ELSE <<SubSeq(bs, 1, p - 1)>> \o split(SubSeq(bs, p + Len(sep), Len(bs)), sep)

IsCont(b) == b \in 128..191

\* the length of the UTF-8 sequence that starts bs (one to three bytes), or 0
\* when the decoder rejects it
SeqLen(bs) ==
    IF bs[1] < 128 THEN 1
    ELSE IF bs[1] \in 194..223 /\ Len(bs) >= 2 /\ IsCont(bs[2]) THEN 2
    ELSE IF /\ bs[1] \in 224..239 /\ Len(bs) >= 3
            /\ IsCont(bs[2]) /\ IsCont(bs[3])
            /\ (bs[1] = 224 => bs[2] >= 160)
            /\ (bs[1] = 237 => bs[2] <= 159) THEN 3
    ELSE 0

\* the code point of the sequence of n bytes that starts bs
CodePoint(bs, n) ==
    CASE n = 1 -> bs[1]
      [] n = 2 -> (bs[1] - 192) * 64 + (bs[2] - 128)
      [] n = 3 -> (bs[1] - 224) * 4096 + (bs[2] - 128) * 64 + (bs[3] - 128)

DecodeFailed == [ok |-> FALSE, text |-> <<>>]

\* the code point cp before the decoded rest r
Cons(cp, r) == IF r.ok THEN [ok |-> TRUE, text |-> <<cp>> \o r.text] ELSE DecodeFailed

RECURSIVE utf_8(_)
RECURSIVE utf_8_seq(_, _)
\* bytes.decode('utf-8'): the code points, or not ok when the decoder raises
\* UnicodeDecodeError
utf_8(bs) ==
    IF bs = <<>> THEN [ok |-> TRUE, text |-> <<>>] ELSE utf_8_seq(bs, SeqLen(bs))

utf_8_seq(bs, n) ==
    IF n = 0 THEN DecodeFailed
    ELSE Cons(CodePoint(bs, n), utf_8(SubSeq(bs, n + 1, Len(bs))))

\* bytes.decode('utf-8-sig'): one leading byte-order mark is dropped
utf_8_sig(bs) ==
    IF LitAt(bs, 1, BOM_UTF8) THEN utf_8(SubSeq(bs, 4, Len(bs))) ELSE utf_8(bs)

UnicodeDecodeError == [exception |-> "UnicodeDecodeError"]

\* [str.decode('utf-8-sig') for str in pieces]
DecodeAll(pieces) == [k \in 1..Len(pieces) |-> utf_8_sig(pieces[k])]

\* with open(...) as fd: body = fd.read(); lines = [decode of each piece]
ReadInput ==
    /\ pc = "read"
    /\ \E dec \in {DecodeAll(split(body, CRLF))} :
           IF \A k \in 1..Len(dec) : dec[k].ok
           THEN /\ lines' = [k \in 1..Len(dec) |-> dec[k].text]
                /\ pc' = "split"
                /\ exc' = exc
           ELSE /\ exc' = UnicodeDecodeError
                /\ pc' = "aborted"
                /\ lines' = lines
    /\ UNCHANGED <<body, fileName, idx, messages, groupName, colorLUT,
                   returned, output, rawBody, fixed>>

(***************************************************************************)
(* IdentifyMessages and the rest of main.                                  *)
(***************************************************************************)
\* a loop that puts each new message in front of the list
Collect_prepend(msgs, message) ==
    IF message = None THEN msgs ELSE <<message>> \o msgs

\* a loop that appends whatever ParseLine returned
Collect_keepNone(msgs, message) == Append(msgs, message)

\* if message is None: continue; messages.append(message)
Collect(msgs, message) ==
    IF message = None THEN msgs ELSE Append(msgs, message)

\* one iteration of the for loop of IdentifyMessages; an exception raised by
\* ParseLine leaves IdentifyMessages and main
LoopStep ==
    /\ pc = "loop"
    /\ idx <= Len(lines)
    /\ \E r \in {ParseLine(lines[idx], groupName, colorLUT)} :
           /\ colorLUT' = r.lut
           /\ IF r.exc # None
              THEN /\ exc' = r.exc
                   /\ pc' = "aborted"
                   /\ UNCHANGED <<idx, messages, groupName>>
              ELSE /\ messages' = Collect(messages, r.message)
                   /\ groupName' = r.groupName
                   /\ idx' = idx + 1
                   /\ UNCHANGED <<exc, pc>>
    /\ UNCHANGED <<body, lines, fileName, returned, output, rawBody, fixed>>

\* return messages, groupName
Return ==
    /\ pc = "loop"
    /\ idx > Len(lines)
    /\ returned' = <<messages, groupName>>
    /\ pc' = "returned"
    /\ UNCHANGED <<body, lines, fileName, idx, messages, groupName, colorLUT,
                   output, exc, rawBody, fixed>>

RECURSIVE basename(_)
\* os.path.basename
basename(path) ==
    IF \E k \in 1..Len(path) : path[k] = "/"
    THEN basename(Tail(path))
    ELSE path

TemplateData(msgs, input_filename, g) ==
    [messages |-> msgs, groupName |-> g,
     input_basename |-> basename(input_filename),
     input_full_path |-> input_filename]

\* the template data is rendered and written to the output file
WriteOutput ==
    /\ pc = "returned"
    /\ output' = TemplateData(returned[1], fileName, returned[2])
    /\ pc' = "written"
    /\ UNCHANGED <<body, lines, fileName, idx, messages, groupName, colorLUT,
                   returned, exc, rawBody, fixed>>

\* a call of massageBody
Massage ==
    /\ pc = "body"
    /\ fixed' = massageBody(rawBody)
    /\ pc' = "massaged"
    /\ UNCHANGED <<body, lines, fileName, idx, messages, groupName, colorLUT,
                   returned, output, exc>>
    /\ UNCHANGED rawBody

(***************************************************************************)
(* Specifications.  Spec: IdentifyMessages on any sequence of at most      *)
(* MaxLines records, then the writing of the output.  SpecSplit: the       *)
(* reading and splitting of any input of at most MaxBytes bytes.           *)
(* SpecBody: massageBody on any body of at most MaxParts parts.            *)
(***************************************************************************)
Init ==
    /\ body = <<>>
    /\ lines \in SeqsUpTo(Records, MaxLines)
    /\ fileName \in FileNames
    /\ idx = 1
    /\ messages = <<>>
    /\ groupName = fileName
    /\ colorLUT = <<>>
    /\ returned = None
    /\ output = None
    /\ exc = None
    /\ pc = "loop"
    /\ rawBody = <<>>
    /\ fixed = <<>>

Next == LoopStep \/ Return \/ WriteOutput

Spec == Init /\ [][Next]_vars

InitSplit ==
    /\ body \in SeqsUpTo(Bytes, MaxBytes)
    /\ lines = <<>>
    /\ fileName \in FileNames
    /\ idx = 1
    /\ messages = <<>>
    /\ groupName = fileName
    /\ colorLUT = <<>>
    /\ returned = None
    /\ output = None
    /\ exc = None
    /\ pc = "read"
    /\ rawBody = <<>>
    /\ fixed = <<>>

NextSplit == ReadInput

SpecSplit == InitSplit /\ [][NextSplit]_vars

InitBody ==
    /\ body = <<>>
    /\ lines = <<>>
    /\ fileName \in FileNames
    /\ idx = 1
    /\ messages = <<>>
    /\ groupName = fileName
    /\ colorLUT = <<>>
    /\ returned = None
    /\ output = None
    /\ exc = None
    /\ pc = "body"
    /\ rawBody \in {Flatten(ps) : ps \in SeqsUpTo(BodyParts, MaxParts)}
    /\ fixed = <<>>

NextBody == Massage

SpecBody == InitBody /\ [][NextBody]_vars

(***************************************************************************)
(* Notions the properties are stated in.                                   *)
(***************************************************************************)
\* the first of two matches that is a match
OrElse(m1, m2) == IF m1 # NoMatch THEN m1 ELSE m2

\* the groups of the message form that wins on line (the sender form first),
\* or NoMatch when line matches neither form
GrammarMatch(line) == OrElse(WHATSAPP_RE(line), FIRSTLINE_RE(line))

\* line matches the full sender form or the first-line form
MatchesGrammar(line) == GrammarMatch(line) # NoMatch

\* the date and time groups of the match m do not parse
Unparseable(m) ==
    m # NoMatch /\ dateutil_parse(m.date \o <<" ">> \o m.time) = ParserError

\* line matches a message grammar and its date and time tokens do not parse
DateFails(line) == Unparseable(GrammarMatch(line))

\* line is a GroupNameChange record, and the name it captures
IsGroupChange(line) ==
    GROUP_RE_1(line) # NoMatch \/ GROUP_RE_2(line) # NoMatch

CapturedName(line) ==
    IF GROUP_RE_2(line) # NoMatch THEN GROUP_RE_2(line).groupName
    ELSE GROUP_RE_1(line).groupName

RECURSIVE LastGroupName(_, _)
\* the name captured by the last GroupNameChange record of ls, or f
LastGroupName(ls, f) ==
    IF ls = <<>> THEN f
    ELSE IF IsGroupChange(Last(ls)) THEN CapturedName(Last(ls))
    ELSE LastGroupName(SubSeq(ls, 1, Len(ls) - 1), f)

\* the loop is about to process the record lines[idx]
AtRecord == pc = "loop" /\ idx <= Len(lines)

\* the step processed a record and the loop went on
Processed == pc' = "loop" /\ idx' = idx + 1 /\ exc' = None

\* ParseLine's messages for the records of ls that yield one, in record order
MessagesOf(ls, f) ==
    LET ms == [k \in 1..Len(ls) |-> ParseLine(ls[k], f, <<>>).message]
    IN  SelectSeq(ms, LAMBDA m : m # None)

(***************************************************************************)
(* C1: when IdentifyMessages returns, the list it returns is exactly the   *)
(* sequence of the messages ParseLine produces for the records that        *)
(* classify as a message, in record order: one per such record, nothing    *)
(* for the others, nothing duplicated or reordered.                        *)
(***************************************************************************)
C1_OrderPreserved ==
    pc \in {"returned", "written"} => returned[1] = MessagesOf(lines, fileName)

\* a run returned two different messages and skipped a record
C1_Witness ==
    /\ pc = "returned"
    /\ Len(returned[1]) >= 2
    /\ returned[1][1] # returned[1][2]
    /\ Len(lines) > Len(returned[1])

(***************************************************************************)
(* C2: the conversation name is the file name before any record is         *)
(* processed; a processed record leaves it unchanged unless the record     *)
(* matches the group-created or the group-secured pattern, and then it     *)
(* becomes the captured name; the name IdentifyMessages returns is the one *)
(* captured by the last such record, or the file name.                     *)
(***************************************************************************)
C2_GroupNameTracking ==
    /\ [](pc = "loop" /\ idx = 1 => groupName = fileName)
    /\ [][AtRecord /\ Processed =>
            groupName' = IF IsGroupChange(lines[idx])
                         THEN CapturedName(lines[idx])
                         ELSE groupName]_vars
    /\ [](pc \in {"returned", "written"} =>
            returned[2] = LastGroupName(lines, fileName))

\* a run returned after two records that captured different names
C2_Witness ==
    /\ pc = "returned"
    /\ \E i, j \in 1..Len(lines) :
          /\ i < j
          /\ IsGroupChange(lines[i]) /\ IsGroupChange(lines[j])
          /\ CapturedName(lines[i]) # CapturedName(lines[j])
          /\ returned[2] = CapturedName(lines[j])

(***************************************************************************)
(* C3, as stated: a record that matches neither message grammar produces   *)
(* no message, leaves the conversation name as it was and does not abort   *)
(* the run.                                                                 *)
(***************************************************************************)
C3_Original ==
    [][AtRecord /\ ~MatchesGrammar(lines[idx]) =>
          /\ messages' = messages
          /\ groupName' = groupName
          /\ Processed]_vars

(***************************************************************************)
(* C3, amended: a record that matches neither message grammar produces no  *)
(* message and does not abort the run; it leaves the conversation name as  *)
(* it was unless it matches the group-created pattern, and then the name   *)
(* becomes the captured one.                                                *)
(***************************************************************************)
C3_UnrecognizedSkipped ==
    [][AtRecord /\ ~MatchesGrammar(lines[idx]) =>
          /\ messages' = messages
          /\ groupName' = IF GROUP_RE_1(lines[idx]) # NoMatch
                          THEN GROUP_RE_1(lines[idx]).groupName
                          ELSE groupName
          /\ Processed]_vars

\* an unrecognized record was skipped and a later record gave a message
C3_Witness ==
    /\ pc = "loop"
    /\ idx = 3
    /\ lines[1] # <<>>
    /\ ~MatchesGrammar(lines[1]) /\ ~IsGroupChange(lines[1])
    /\ Len(messages) = 1
    /\ groupName = fileName

(***************************************************************************)
(* C4, as stated: every non-empty record that matches a message grammar    *)
(* and whose date and time parse yields exactly one appended message, the  *)
(* empty body included (direction ltr), and never aborts the run.          *)
(***************************************************************************)
C4_Claim ==
    [][AtRecord /\ lines[idx] # <<>> /\ MatchesGrammar(lines[idx])
          /\ ~DateFails(lines[idx]) =>
          /\ Processed
          /\ Len(messages') = Len(messages) + 1
          /\ SubSeq(messages', 1, Len(messages)) = messages
          /\ (GrammarMatch(lines[idx]).body = <<>> => Last(messages').dir = "ltr")]_vars

(***************************************************************************)
(* C5: when a record matches a message grammar and its date and time do    *)
(* not parse, the run aborts at that record with the parse error: the loop *)
(* never passes such a record, a run that returned or wrote its output     *)
(* held no such record, and an aborted run has returned nothing and        *)
(* written nothing, however many records were classified before.           *)
(***************************************************************************)
C5_DateFailureAborts ==
    /\ (pc = "loop" /\ idx > 1 => ~DateFails(lines[idx - 1]))
    /\ (pc \in {"returned", "written"} =>
            \A k \in 1..Len(lines) : ~DateFails(lines[k]))
    /\ (pc \in {"loop", "aborted"} => returned = None /\ output = None)
    /\ (pc = "aborted" /\ DateFails(lines[idx]) => exc = ParserError)

\* the run aborted on a date failure after a record had been classified
C5_Witness ==
    /\ pc = "aborted"
    /\ exc = ParserError
    /\ DateFails(lines[idx])
    /\ Len(messages) >= 1

(***************************************************************************)
(* C6, as stated: a record that contains  created group <name>  in curly   *)
(* quotes at any position sets the conversation name to <name>.            *)
(***************************************************************************)
\* re.search of the group-created pattern: the name of the leftmost match
CreatedGroupAt(line, p) ==
    LET a == Extend(<< <<p>> >>, LAMBDA q : Lit(line, q, LIT_CREATED_GROUP))
        b == Extend(a, LAMBDA q : Greedy(line, q, AnyChar, 1))
        c == Extend(b, LAMBDA q : Lit(line, q, <<"RDQ">>))
    IN  Groups(line, First(c), <<"groupName">>, <<2>>, <<3>>)

ContainsCreatedGroup(line) ==
    \E p \in 1..Len(line) : CreatedGroupAt(line, p) # NoMatch

CreatedGroupName(line) ==
    LET p == CHOOSE p \in 1..Len(line) :
                 /\ CreatedGroupAt(line, p) # NoMatch
                 /\ \A q \in 1..(p - 1) : CreatedGroupAt(line, q) = NoMatch
    IN  CreatedGroupAt(line, p).groupName

C6_Claim ==
    [][AtRecord /\ ContainsCreatedGroup(lines[idx]) /\ Processed =>
          groupName' = CreatedGroupName(lines[idx])]_vars

(***************************************************************************)
(* C7, as stated: splitting is lossless and uses only the two-byte         *)
(* delimiter: with one byte-order mark removed at the very start of the    *)
(* input and nothing else, the records joined by CR LF reproduce the       *)
(* input; there is one record more than there are delimiters; no record    *)
(* contains the delimiter.                                                  *)
(***************************************************************************)
\* str.join
Join(ls, sep) ==
    Flatten([k \in 1..(2 * Len(ls) - 1) |->
                IF k % 2 = 1 THEN ls[(k + 1) \div 2] ELSE sep])

StripLeadingBom(bs) ==
    IF LitAt(bs, 1, BOM_UTF8) THEN SubSeq(bs, 4, Len(bs)) ELSE bs

C7_Claim ==
    pc = "split" =>
        /\ Join(lines, CRLF) = utf_8(StripLeadingBom(body)).text
        /\ Len(lines) = Cardinality({p \in 1..Len(body) : LitAt(body, p, CRLF)}) + 1
        /\ \A k \in 1..Len(lines) : ~Contains(lines[k], CRLF)

(***************************************************************************)
(* C8, as stated: the direction of a message is rtl when the first         *)
(* character of its body is a Hebrew or an Arabic letter (bidirectional    *)
(* class R or AL) and ltr when it is a Latin letter.                       *)
(***************************************************************************)
C8_Claim ==
    [][AtRecord /\ Processed /\ Len(messages') = Len(messages) + 1 =>
          \E first \in {GrammarMatch(lines[idx]).body[1]} :
              /\ bidirectional(first) \in {"R", "AL"} => Last(messages').dir = "rtl"
              /\ first \in Letters => Last(messages').dir = "ltr"]_vars

(***************************************************************************)
(* C9, as stated: massageBody replaces the markers of at most one          *)
(* attachment category, image before video before audio: when the body     *)
(* holds an image marker and a video marker, the image markup appears and  *)
(* every video marker stays as escaped text; video beats audio in the same *)
(* way.                                                                     *)
(***************************************************************************)
\* the attachment markers of b whose extension is one of exts
Markers(b, exts) ==
    LET prefix == <<"<", "a", "t", "t", "a", "c", "h", "e", "d", ":", " ">>
        stem   == [neg |-> TRUE, set |-> {"<", ">", "\n"}]
        end(p) == p + Len(prefix) + RunLen(b, p + Len(prefix), stem)
    IN  {Slice(b, p, end(p) + 1) : p \in
            {p \in 1..Len(b) :
                /\ LitAt(b, p, prefix)
                /\ LitAt(b, end(p), <<">">>)
                /\ \E k \in 1..Len(exts) :
                      /\ end(p) - Len(exts[k]) - 1 > p + Len(prefix)
                      /\ LitAt(b, end(p) - Len(exts[k]) - 1, <<".">> \o exts[k])}}

Escaped(s) == SubChar(SubChar(SubChar(s, "&", LIT_AMP), "<", LIT_LT), ">", LIT_GT)

C9_Claim ==
    pc = "massaged" =>
        LET img   == Markers(rawBody, IMG_EXT)
            mov   == Markers(rawBody, MOV_EXT)
            audio == Markers(rawBody, AUDIO_EXT)
            imgTag   == Contains(fixed, <<"<", "i", "m", "g", " ">>)
            movTag   == Contains(fixed, <<"<", "v", "i", "d", "e", "o", " ">>)
            audioTag == Contains(fixed, <<"<", "a", "u", "d", "i", "o", " ">>)
        IN  /\ ~(imgTag /\ movTag) /\ ~(imgTag /\ audioTag) /\ ~(movTag /\ audioTag)
            /\ img # {} /\ mov # {} =>
                  /\ imgTag
                  /\ \A mk \in mov : Contains(fixed, Escaped(mk))
            /\ img = {} /\ mov # {} /\ audio # {} =>
                  /\ movTag
                  /\ \A mk \in audio : Contains(fixed, Escaped(mk))

(***************************************************************************)
(* C10, as stated: every message of the output carries a colour, the       *)
(* colour of its author (nobody for a message of the first-line form); so  *)
(* two messages of one author have one colour; and the colour table only   *)
(* gains entries.                                                           *)
(***************************************************************************)
colorFor(author) == ColorStr(Md5Mod360(author))

C10_Claim ==
    /\ [](\A k \in 1..Len(messages) :
            /\ "color" \in DOMAIN messages[k]
            /\ messages[k].color = colorFor(messages[k].user))
    /\ [][\A u \in DOMAIN colorLUT :
            u \in DOMAIN colorLUT' /\ colorLUT'[u] = colorLUT[u]]_vars
====
